---- MODULE Spec2Model ----
(***************************************************************************)
(* PrismaTestingHelper (src/src/prisma.testing.helper.ts) as a state       *)
(* machine: the transaction lifecycle (startNewTransaction /               *)
(* rollbackCurrentTransaction), the savepoint manager (wrapInSavepoint,    *)
(* transactionProxyFunction), the promise lock (acquireTransactionLock),   *)
(* the AsyncLocalStorage marker, and the one connection of every           *)
(* interactive transaction with PostgreSQL's savepoint commands.           *)
(*                                                                         *)
(* Every await of the code is a step boundary.  Continuations of lock      *)
(* promises are microtasks and run in the order the event loop queues      *)
(* them; completions of database round trips are macrotasks and run only   *)
(* when the microtask queue is empty.                                      *)
(***************************************************************************)
EXTENDS Integers, Sequences, FiniteSets, TLC

\* ------------------------------------------------------------------ bounds
NTasks == 4          \* frames: operations issued through the proxy client
MaxOps == 3          \* operations issued in the specifications Spec and SpecScopes
MaxSessions == 2     \* calls of prismaClient.$transaction by startNewTransaction
NRows == 2           \* distinct rows the operations of SpecScopes insert
FewRows == 1         \* distinct rows the operations of the other specifications insert
MaxBody == 2         \* user steps inside one $transaction callback
MaxArray == 2        \* queries in one $transaction([...]) call
E2ERows == 4         \* rows the end-to-end scenario picks A, B and C from
WarmSavepoints == 55 \* operations that have succeeded before SpecCap starts
MaxHandlers == 2     \* handlers attached with catch to one deferred query
HandleOps == 2       \* deferred queries issued in SpecHandle

\* line 10
MAX_ACTIVE_SAVEPOINTS == 56

Tasks == 1..NTasks
Sessions == 1..MaxSessions
\* An insert of row r; -r is an insert of row r that violates a constraint.
StmtsOver(n) == (1..n) \cup {-r : r \in 1..n}
ArraysOver(n) == UNION {[1..m -> StmtsOver(n)] : m \in 0..MaxArray}
Kinds == {"query", "txfn", "txarr", "txbad"}
\* Inside a scope only proxy.$transaction enters wrapInSavepoint (line 84).
NestedKinds == Kinds \ {"query"}

VARIABLES
  currentPrismaTransactionClient, \* 0 = undefined, else the session's client
  endCurrentTransactionPromise,   \* 0 = undefined, else the session it ends
  savepointId,
  transactionLock,                \* 0 = null, else the task that made the promise
  waiters,                        \* reactions registered on each lock promise
  microtasks,                     \* queued continuations of acquireTransactionLock
  task,                           \* each operation's frame
  issued,                         \* number of operations issued so far
  tx,                             \* each interactive transaction's lifecycle
  db,                             \* each interactive transaction's connection
  dbCommitted,                    \* rows visible outside every transaction
  dbBefore,                       \* dbCommitted when startNewTransaction was called
  sql,                            \* savepoint commands sent on each client
  txStarted,                      \* prismaClient.$transaction calls so far
  lastCall,                       \* outcome of the last public call
  plain                           \* reference: same statements, no savepoints

vars == <<currentPrismaTransactionClient, endCurrentTransactionPromise,
          savepointId, transactionLock, waiters, microtasks, task, issued, tx,
          db, dbCommitted, dbBefore, sql, txStarted, lastCall, plain>>

lifecycleVars == <<currentPrismaTransactionClient, endCurrentTransactionPromise,
                   tx, dbCommitted, dbBefore, txStarted, lastCall>>
lockVars == <<transactionLock, waiters, microtasks>>
dbVars == <<db, sql, plain>>

\* ------------------------------------------------------- the connection
EmptyDb == [data |-> {}, sps |-> <<>>, aborted |-> FALSE]

\* The transaction exists on the server: BEGIN done, ROLLBACK not yet.
DbOpen(s) == tx[s] \in {"open", "ending"}

\* Position of the most recent savepoint called n, 0 if there is none.
SavepointIndex(d, n) ==
  LET hits == {i \in 1..Len(d.sps) : d.sps[i].n = n}
  IN IF hits = {} THEN 0 ELSE CHOOSE i \in hits : \A j \in hits : j <= i

\* SAVEPOINT n
SqlSavepoint(d, n) ==
  IF d.aborted THEN [d |-> d, ok |-> FALSE]
  ELSE [d |-> [d EXCEPT !.sps = Append(@, [n |-> n, snap |-> d.data])],
        ok |-> TRUE]

\* RELEASE SAVEPOINT n: destroys n and every savepoint made after it.
SqlRelease(d, n) ==
  LET i == SavepointIndex(d, n)
  IN IF d.aborted THEN [d |-> d, ok |-> FALSE]
     ELSE IF i = 0 THEN [d |-> [d EXCEPT !.aborted = TRUE], ok |-> FALSE]
     ELSE [d |-> [d EXCEPT !.sps = SubSeq(@, 1, i - 1)], ok |-> TRUE]

\* ROLLBACK TO SAVEPOINT n: restores the data, destroys the savepoints made
\* after n, keeps n, and ends the aborted state.
SqlRollbackTo(d, n) ==
  LET i == SavepointIndex(d, n)
  IN IF i = 0 THEN [d |-> [d EXCEPT !.aborted = TRUE], ok |-> FALSE]
     ELSE [d |-> [data |-> d.sps[i].snap, sps |-> SubSeq(d.sps, 1, i),
                  aborted |-> FALSE],
           ok |-> TRUE]

\* One query of a delegate (an insert).
SqlInsert(d, st) ==
  IF d.aborted THEN [d |-> d, ok |-> FALSE]
  ELSE IF st < 0 \/ st \in d.data THEN [d |-> [d EXCEPT !.aborted = TRUE], ok |-> FALSE]
  ELSE [d |-> [d EXCEPT !.data = @ \cup {st}], ok |-> TRUE]

\* The same insert in a transaction that uses no savepoints.
PlainInsert(rows, st) == IF st < 0 \/ st \in rows THEN rows ELSE rows \cup {st}

\* A command sent on the client of session s.
Execute(s, c) ==
  IF ~DbOpen(s) THEN [d |-> db[s], ok |-> FALSE]
  ELSE CASE c.op = "SAVEPOINT" -> SqlSavepoint(db[s], c.n)
         [] c.op = "RELEASE" -> SqlRelease(db[s], c.n)
         [] c.op = "ROLLBACK" -> SqlRollbackTo(db[s], c.n)
         [] c.op = "INSERT" -> SqlInsert(db[s], c.n)

\* ------------------------------------------------------------ the frames
IdleTask ==
  [pc |-> "idle", kind |-> "query", parent |-> 0, transactionClient |-> 0,
   lockResolve |-> 0, savepointName |-> -1, stmts |-> <<>>, io |-> TRUE,
   err |-> "none", result |-> "none", cbClient |-> 0, steps |-> 0,
   wrote |-> {}, child |-> 0, catchCallbacks |-> <<>>, delegateClient |-> 0]
\* steps: the queries of the array already answered ($transaction([...])), or
\* the steps the callback may still take ($transaction(callback)).
\* delegateClient: the session whose delegate the handles of the call were
\* built from (lines 50-54: the get trap reads the delegate off the client
\* stored at that moment, and originalFunction of line 75 stays bound to it).

\* The session whose delegates the handles in the arguments of a call of kind
\* k come from, when they are built in the expression that makes the call.
DelegateOf(k) ==
  IF k \in {"query", "txarr"} THEN currentPrismaTransactionClient ELSE 0

Init ==
  /\ currentPrismaTransactionClient = 0
  /\ endCurrentTransactionPromise = 0
  /\ savepointId = 0
  /\ transactionLock = 0
  /\ waiters = [t \in Tasks |-> <<>>]
  /\ microtasks = <<>>
  /\ task = [t \in Tasks |-> IdleTask]
  /\ issued = 0
  /\ tx = [s \in Sessions |-> "unused"]
  /\ db = [s \in Sessions |-> EmptyDb]
  /\ dbCommitted = {}
  /\ dbBefore = [s \in Sessions |-> {}]
  /\ sql = [s \in Sessions |-> <<>>]
  /\ txStarted = 0
  /\ lastCall = [op |-> "none", err |-> "none"]
  /\ plain = [s \in Sessions |-> {}]

\* ------------------------------------------------- transaction lifecycle
\* startNewTransaction with the counter reset moved above the guard.
StartNewTransactionResetsFirst ==
  IF endCurrentTransactionPromise # 0
  THEN /\ savepointId' = 0
       /\ lastCall' = [op |-> "start", err |-> "AlreadyActive"]
       /\ UNCHANGED <<currentPrismaTransactionClient, endCurrentTransactionPromise,
                      tx, dbCommitted, dbBefore, txStarted,
                      lockVars, task, issued, dbVars>>
  ELSE /\ txStarted < MaxSessions
       /\ savepointId' = 0
       /\ txStarted' = txStarted + 1
       /\ tx' = [tx EXCEPT ![txStarted + 1] = "starting"]
       /\ dbBefore' = [dbBefore EXCEPT ![txStarted + 1] = dbCommitted]
       /\ lastCall' = [op |-> "start", err |-> "none"]
       /\ UNCHANGED <<currentPrismaTransactionClient, endCurrentTransactionPromise,
                      dbCommitted, lockVars, task, issued, dbVars>>

\* startNewTransaction, up to the call of prismaClient.$transaction.
StartNewTransaction ==
  IF endCurrentTransactionPromise # 0
  THEN /\ lastCall' = [op |-> "start", err |-> "AlreadyActive"]
       /\ UNCHANGED <<currentPrismaTransactionClient, endCurrentTransactionPromise,
                      savepointId, tx, dbCommitted, dbBefore, txStarted,
                      lockVars, task, issued, dbVars>>
  ELSE /\ txStarted < MaxSessions
       /\ savepointId' = 0
       /\ txStarted' = txStarted + 1
       /\ tx' = [tx EXCEPT ![txStarted + 1] = "starting"]
       /\ dbBefore' = [dbBefore EXCEPT ![txStarted + 1] = dbCommitted]
       /\ lastCall' = [op |-> "start", err |-> "none"]
       /\ UNCHANGED <<currentPrismaTransactionClient, endCurrentTransactionPromise,
                      dbCommitted, lockVars, task, issued, dbVars>>

\* The callback of prismaClient.$transaction runs: BEGIN is done, the client
\* and the end signal are stored and startNewTransaction's promise resolves.
TxBegin(s) ==
  /\ tx[s] = "starting"
  /\ microtasks = <<>>
  /\ tx' = [tx EXCEPT ![s] = "open"]
  /\ db' = [db EXCEPT ![s] = [EmptyDb EXCEPT !.data = dbCommitted]]
  /\ plain' = [plain EXCEPT ![s] = dbCommitted]
  /\ currentPrismaTransactionClient' = s
  /\ endCurrentTransactionPromise' = s
  /\ UNCHANGED <<savepointId, lockVars, task, issued, dbCommitted, dbBefore,
                 sql, txStarted, lastCall>>

\* prismaClient.$transaction rejects without calling the callback.
TxFail(s) ==
  /\ tx[s] = "starting"
  /\ microtasks = <<>>
  /\ tx' = [tx EXCEPT ![s] = "failed"]
  /\ UNCHANGED <<currentPrismaTransactionClient, endCurrentTransactionPromise,
                 savepointId, lockVars, task, issued, dbVars, dbCommitted,
                 dbBefore, txStarted, lastCall>>

\* rollbackCurrentTransaction guarded by the stored client instead of the
\* stored end signal.
RollbackGuardedByClient ==
  IF currentPrismaTransactionClient = 0
  THEN /\ lastCall' = [op |-> "rollback", err |-> "NoActiveTransaction"]
       /\ UNCHANGED <<currentPrismaTransactionClient, endCurrentTransactionPromise,
                      savepointId, tx, dbCommitted, dbBefore, txStarted,
                      lockVars, task, issued, dbVars>>
  ELSE /\ tx' = [tx EXCEPT ![currentPrismaTransactionClient] = "ending"]
       /\ endCurrentTransactionPromise' = 0
       /\ lastCall' = [op |-> "rollback", err |-> "none"]
       /\ UNCHANGED <<currentPrismaTransactionClient, savepointId, dbCommitted,
                      dbBefore, txStarted, lockVars, task, issued, dbVars>>

RollbackCurrentTransaction ==
  IF endCurrentTransactionPromise = 0
  THEN /\ lastCall' = [op |-> "rollback", err |-> "NoActiveTransaction"]
       /\ UNCHANGED <<currentPrismaTransactionClient, endCurrentTransactionPromise,
                      savepointId, tx, dbCommitted, dbBefore, txStarted,
                      lockVars, task, issued, dbVars>>
  ELSE /\ tx' = [tx EXCEPT ![endCurrentTransactionPromise] = "ending"]
       /\ endCurrentTransactionPromise' = 0
       /\ lastCall' = [op |-> "rollback", err |-> "none"]
       /\ UNCHANGED <<currentPrismaTransactionClient, savepointId, dbCommitted,
                      dbBefore, txStarted, lockVars, task, issued, dbVars>>

\* The holding callback returning once the end signal has fired.
HoldingCallbackReturns == "return"

\* How the holding callback ends once the end signal has fired (line 234).
HoldingCallbackOutcome == "throw"

\* prismaClient.$transaction's contract: commit when the callback resolves,
\* roll back when it rejects.
TxEnd(s) ==
  /\ tx[s] = "ending"
  /\ microtasks = <<>>
  /\ IF HoldingCallbackOutcome = "throw"
     THEN tx' = [tx EXCEPT ![s] = "rolledback"] /\ UNCHANGED dbCommitted
     ELSE tx' = [tx EXCEPT ![s] = "committed"] /\ dbCommitted' = db[s].data
  /\ UNCHANGED <<currentPrismaTransactionClient, endCurrentTransactionPromise,
                 savepointId, lockVars, task, issued, dbVars, dbBefore,
                 txStarted, lastCall>>

\* ----------------------------------------------------- wrapInSavepoint
\* The ambient marker of asyncLocalStorage: an operation started inside the
\* callback of task p runs in p's call chain and sees p's savepoint.
IsInTransaction(r) == r.parent # 0

\* Sending one command on client s for task t: the connection executes the
\* commands in the order they are sent; the reply is read at the next step.
Reply(s, c) == Execute(s, c).ok

Send(s, c, t) ==
  /\ db' = [db EXCEPT ![s] = Execute(s, c).d]
  /\ sql' = IF c.op = "INSERT" THEN sql
            ELSE [sql EXCEPT ![s] = Append(@, <<c.op, c.n, t>>)]
  /\ plain' = IF c.op = "INSERT" /\ DbOpen(s)
              THEN [plain EXCEPT ![s] = PlainInsert(@, c.n)]
              ELSE plain

\* What the finally block stores in transactionLock (line 191).
LockAfterFinally(r) == 0

\* The finally block without the call of lockResolve.
FinallyKeepsWaiters(tk, t, r, mq) ==
  /\ transactionLock' = LockAfterFinally(r)
  /\ microtasks' = mq
  /\ UNCHANGED waiters
  /\ task' = [tk EXCEPT ![t] = [r EXCEPT !.pc = "done"]]

\* finally (lines 190-193) of task t whose frame is r; tk and mq are the
\* frames and the microtask queue the step has reached.
Finally(tk, t, r, mq) ==
  /\ transactionLock' = LockAfterFinally(r)
  /\ IF r.lockResolve # 0
     THEN /\ microtasks' = mq \o waiters[t]
          /\ waiters' = [waiters EXCEPT ![t] = <<>>]
     ELSE /\ microtasks' = mq
          /\ UNCHANGED waiters
  /\ task' = [tk EXCEPT ![t] = [r EXCEPT !.pc = "done"]]

\* The catch block with RELEASE SAVEPOINT in the place of ROLLBACK TO SAVEPOINT.
RollbackSendsRelease(tk, t, r, e) ==
  LET c == [op |-> "RELEASE", n |-> r.savepointName]
  IN /\ Send(r.transactionClient, c, t)
     /\ task' = [tk EXCEPT ![t] = [r EXCEPT !.pc = "rollingback", !.err = e,
                                            !.io = Reply(r.transactionClient, c)]]
     /\ UNCHANGED <<savepointId, lockVars>>

\* The catch block (lines 186-187): send ROLLBACK TO SAVEPOINT, keep err.
Rollback(tk, t, r, e) ==
  LET c == [op |-> "ROLLBACK", n |-> r.savepointName]
  IN /\ Send(r.transactionClient, c, t)
     /\ task' = [tk EXCEPT ![t] = [r EXCEPT !.pc = "rollingback", !.err = e,
                                            !.io = Reply(r.transactionClient, c)]]
     /\ UNCHANGED <<savepointId, lockVars>>

\* The rollback issued on every exit of the try block, not only in the catch.
SucceedRollsBack(tk, t, r, mq) == Rollback(tk, t, r, "ok")

\* func has resolved: line 185 returns its value through the finally block.
Succeed(tk, t, r, mq) ==
  /\ Finally(tk, t, [r EXCEPT !.result = "ok"], mq)
  /\ UNCHANGED <<savepointId, dbVars>>

\* The batch release rule (lines 176-177).
SavepointIdToRelease == savepointId - MAX_ACTIVE_SAVEPOINTS

\* The batch release rule switched off.
NeverNeedsRelease == FALSE

NeedsRelease ==
  SavepointIdToRelease >= 0 /\ SavepointIdToRelease % MAX_ACTIVE_SAVEPOINTS = 0

\* Lines 182-184 with the SAVEPOINT sent on the client stored at that moment.
CreateSavepointOnCurrent(tk, t, r, mq) ==
  LET c == [op |-> "SAVEPOINT", n |-> savepointId]
      s == IF currentPrismaTransactionClient # 0
           THEN currentPrismaTransactionClient ELSE r.transactionClient
  IN /\ savepointId' = savepointId + 1
     /\ Send(s, c, t)
     /\ task' = [tk EXCEPT ![t] = [r EXCEPT !.pc = "creating",
                                            !.savepointName = savepointId,
                                            !.io = Reply(s, c)]]
     /\ microtasks' = mq
     /\ UNCHANGED <<transactionLock, waiters>>

\* Lines 182-184: allocate the name and send SAVEPOINT.
CreateSavepoint(tk, t, r, mq) ==
  LET c == [op |-> "SAVEPOINT", n |-> savepointId]
  IN /\ savepointId' = savepointId + 1
     /\ Send(r.transactionClient, c, t)
     /\ task' = [tk EXCEPT ![t] = [r EXCEPT !.pc = "creating",
                                            !.savepointName = savepointId,
                                            !.io = Reply(r.transactionClient, c)]]
     /\ microtasks' = mq
     /\ UNCHANGED <<transactionLock, waiters>>

\* Lines 167-184, from the try to the first await.
EnterScope(tk, t, r, mq) ==
  IF r.transactionClient = 0
  THEN /\ Finally(tk, t, [r EXCEPT !.result = "NoActiveTransaction"], mq)
       /\ UNCHANGED <<savepointId, dbVars>>
  ELSE IF r.transactionClient # currentPrismaTransactionClient
  THEN /\ Finally(tk, t, [r EXCEPT !.result = "TransactionChanged"], mq)
       /\ UNCHANGED <<savepointId, dbVars>>
  ELSE IF NeedsRelease
  THEN LET c == [op |-> "RELEASE", n |-> SavepointIdToRelease]
       IN /\ Send(r.transactionClient, c, t)
          /\ task' = [tk EXCEPT ![t] = [r EXCEPT !.pc = "releasing",
                                                 !.io = Reply(r.transactionClient, c)]]
          /\ microtasks' = mq
          /\ UNCHANGED <<savepointId, transactionLock, waiters>>
  ELSE CreateSavepoint(tk, t, r, mq)

\* One query of a delegate, sent on client s.
Query(tk, t, r, s, st) ==
  LET c == [op |-> "INSERT", n |-> st]
  IN /\ Send(s, c, t)
     /\ task' = [tk EXCEPT ![t] =
                   [r EXCEPT !.pc = "stmt", !.io = Reply(s, c),
                             !.wrote = IF Reply(s, c) THEN @ \cup {st} ELSE @]]
     /\ UNCHANGED <<savepointId, lockVars>>

\* acquireTransactionLock up to its first await or its return (lines 196-205).
AcquireTransactionLock(tk, t, r, mq) ==
  IF transactionLock # 0
  THEN /\ waiters' = [waiters EXCEPT ![transactionLock] = Append(@, t)]
       /\ task' = [tk EXCEPT ![t] = [r EXCEPT !.pc = "waiting"]]
       /\ microtasks' = mq
       /\ UNCHANGED transactionLock
  ELSE /\ transactionLock' = t
       /\ task' = [tk EXCEPT ![t] = [r EXCEPT !.pc = "locked", !.lockResolve = t]]
       /\ microtasks' = Append(mq, t)
       /\ UNCHANGED waiters

\* The arguments an operation of kind k can carry, over n rows.
ArgsOf(k, n) ==
  CASE k = "query" -> {<<st>> : st \in StmtsOver(n)}
    [] k = "txarr" -> ArraysOver(n)
    [] OTHER -> {<<>>}

\* An operation issued through the proxy while no client is stored: the proxy
\* relays to the original client, which commits each query on its own.
DirectQuery(st) ==
  /\ issued < NTasks
  /\ currentPrismaTransactionClient = 0
  /\ issued' = issued + 1
  /\ dbCommitted' = PlainInsert(dbCommitted, st)
  /\ task' = [task EXCEPT ![issued + 1] =
                [IdleTask EXCEPT !.pc = "direct", !.stmts = <<st>>,
                                 !.io = (st > 0 /\ st \notin dbCommitted)]]
  /\ UNCHANGED <<currentPrismaTransactionClient, endCurrentTransactionPromise,
                 savepointId, lockVars, tx, dbVars, dbBefore, txStarted, lastCall>>

\* The original client has answered the relayed query: the caller gets the
\* result or the failure.
DirectDone(t) ==
  /\ task[t].pc = "direct"
  /\ microtasks = <<>>
  /\ task' = [task EXCEPT ![t] = [@ EXCEPT !.pc = "done",
                                           !.result = IF task[t].io THEN "ok" ELSE "Db"]]
  /\ UNCHANGED <<savepointId, lockVars, dbVars, lifecycleVars, issued>>

\* An operation awaited outside every savepoint scope: a delegate query
\* (line 86) or proxy.$transaction (line 137); wrapInSavepoint to its first await.
IssueTop(k, a) ==
  /\ issued < NTasks
  /\ currentPrismaTransactionClient # 0
  /\ issued' = issued + 1
  /\ AcquireTransactionLock(task, issued + 1,
        [IdleTask EXCEPT !.kind = k, !.stmts = a,
                         !.delegateClient = DelegateOf(k),
                         !.transactionClient = currentPrismaTransactionClient],
        microtasks)
  /\ UNCHANGED <<savepointId, dbVars, lifecycleVars>>

\* A continuation of acquireTransactionLock: the loop re-checks the lock.
WakeWaiter ==
  /\ microtasks # <<>>
  /\ task[Head(microtasks)].pc = "waiting"
  /\ AcquireTransactionLock(task, Head(microtasks), task[Head(microtasks)],
                            Tail(microtasks))
  /\ UNCHANGED <<savepointId, dbVars, lifecycleVars, issued>>

\* wrapInSavepoint continues after `await this.acquireTransactionLock()`.
EnterLocked ==
  /\ microtasks # <<>>
  /\ task[Head(microtasks)].pc = "locked"
  /\ EnterScope(task, Head(microtasks), task[Head(microtasks)], Tail(microtasks))
  /\ UNCHANGED <<lifecycleVars, issued>>

\* The batch RELEASE SAVEPOINT has been answered (line 179).
AfterRelease(t) ==
  /\ task[t].pc = "releasing"
  /\ microtasks = <<>>
  /\ IF task[t].io
     THEN CreateSavepoint(task, t, task[t], microtasks)
     ELSE /\ Finally(task, t, [task[t] EXCEPT !.result = "Db"], microtasks)
          /\ UNCHANGED <<savepointId, dbVars>>
  /\ UNCHANGED <<lifecycleVars, issued>>

\* SAVEPOINT has been answered (line 184); func starts (line 185).
AfterSavepoint(t) ==
  /\ task[t].pc = "creating"
  /\ microtasks = <<>>
  /\ LET r == task[t]
     IN IF ~r.io THEN Rollback(task, t, r, "Db")
        ELSE CASE r.kind = "txbad" -> Rollback(task, t, r, "InvalidArgument")
               [] r.kind = "txfn" ->
                    /\ task' = [task EXCEPT ![t] =
                                  [r EXCEPT !.pc = "body", !.steps = MaxBody,
                                            !.cbClient = currentPrismaTransactionClient]]
                    /\ UNCHANGED <<savepointId, lockVars, dbVars>>
               [] r.stmts = <<>> -> Succeed(task, t, r, microtasks)
               [] OTHER -> Query(task, t, r, r.delegateClient, r.stmts[1])
  /\ UNCHANGED <<lifecycleVars, issued>>

\* A query has been answered.
StmtDone(t) ==
  /\ task[t].pc = "stmt"
  /\ microtasks = <<>>
  /\ LET r == task[t]
     IN IF ~r.io THEN Rollback(task, t, r, "Db")
        ELSE CASE r.kind = "txfn" ->
                    /\ task' = [task EXCEPT ![t] = [r EXCEPT !.pc = "body"]]
                    /\ UNCHANGED <<savepointId, lockVars, dbVars>>
               [] r.steps + 1 >= Len(r.stmts) ->
                    Succeed(task, t, [r EXCEPT !.steps = @ + 1], microtasks)
               [] OTHER -> Query(task, t, [r EXCEPT !.steps = @ + 1],
                                 r.delegateClient, r.stmts[r.steps + 2])
  /\ UNCHANGED <<lifecycleVars, issued>>

\* ROLLBACK TO SAVEPOINT has been answered (line 187); line 188 rethrows err.
AfterRollback(t) ==
  /\ task[t].pc = "rollingback"
  /\ microtasks = <<>>
  /\ Finally(task, t,
             [task[t] EXCEPT !.result = IF task[t].io THEN task[t].err
                                        ELSE "RollbackFailed"],
             microtasks)
  /\ UNCHANGED <<savepointId, dbVars, lifecycleVars, issued>>

\* ------------------------------------- the callback of proxy.$transaction
\* A query awaited inside the callback that is given a savepoint of its own.
BodyStmtInSavepoint(t, st) ==
  /\ task[t].pc = "body"
  /\ task[t].steps > 0
  /\ CreateSavepoint(task, t, [task[t] EXCEPT !.steps = @ - 1], microtasks)
  /\ UNCHANGED <<lifecycleVars, issued>>

\* The callback awaits a query: on the client it was given (line 147), or
\* through the proxy, whose get trap takes the delegate from the client stored
\* at that moment (line 51) and whose handle, awaited inside the scope, calls
\* the delegate's function as it is (line 90).
BodyStmt(t, st) ==
  /\ task[t].pc = "body"
  /\ task[t].steps > 0
  /\ \E s \in {task[t].cbClient, currentPrismaTransactionClient} :
       Query(task, t, [task[t] EXCEPT !.steps = @ - 1], s, st)
  /\ UNCHANGED <<lifecycleVars, issued>>

\* A nested wrapInSavepoint that takes the lock as a top-level one does.
IssueNestedTakesLock(p, k, a) ==
  /\ task[p].pc = "body"
  /\ task[p].steps > 0
  /\ issued < NTasks
  /\ issued' = issued + 1
  /\ AcquireTransactionLock([task EXCEPT ![p] = [@ EXCEPT !.pc = "awaitChild",
                                                        !.steps = @ - 1,
                                                        !.child = issued + 1]],
                            issued + 1,
                            [IdleTask EXCEPT !.kind = k, !.stmts = a, !.parent = p,
                                             !.delegateClient = DelegateOf(k),
                                             !.transactionClient = currentPrismaTransactionClient],
                            microtasks)
  /\ UNCHANGED <<savepointId, dbVars, lifecycleVars>>

\* The callback awaits proxy.$transaction(...): a nested wrapInSavepoint,
\* which runs without an await up to its first command.
IssueNested(p, k, a) ==
  /\ task[p].pc = "body"
  /\ task[p].steps > 0
  /\ issued < NTasks
  /\ issued' = issued + 1
  /\ EnterScope([task EXCEPT ![p] = [@ EXCEPT !.pc = "awaitChild",
                                            !.steps = @ - 1,
                                            !.child = issued + 1]],
                issued + 1,
                [IdleTask EXCEPT !.kind = k, !.stmts = a, !.parent = p,
                                 !.delegateClient = DelegateOf(k),
                                 !.transactionClient = currentPrismaTransactionClient],
                microtasks)
  /\ UNCHANGED lifecycleVars

\* The nested call has settled and the callback goes on (it catches a failure).
ChildDone(p) ==
  /\ task[p].pc = "awaitChild"
  /\ task[task[p].child].pc = "done"
  /\ task' = [task EXCEPT ![p] =
                [@ EXCEPT !.pc = "body",
                          !.wrote = IF task[task[p].child].result = "ok"
                                    THEN @ \cup task[task[p].child].wrote ELSE @]]
  /\ UNCHANGED <<savepointId, lockVars, dbVars, lifecycleVars, issued>>

\* The nested call has failed and the callback lets the failure through.
ChildThrow(p) ==
  /\ task[p].pc = "awaitChild"
  /\ task[task[p].child].pc = "done"
  /\ task[task[p].child].result # "ok"
  /\ Rollback(task, p, task[p], task[task[p].child].result)
  /\ UNCHANGED <<lifecycleVars, issued>>

\* The callback returns.
BodyReturn(t) ==
  /\ task[t].pc = "body"
  /\ Succeed(task, t, task[t], microtasks)
  /\ UNCHANGED <<lifecycleVars, issued>>

\* The callback throws.
BodyThrow(t) ==
  /\ task[t].pc = "body"
  /\ Rollback(task, t, task[t], "User")
  /\ UNCHANGED <<lifecycleVars, issued>>


\* ================================================================ claims
\* A top-level wrapInSavepoint scope is open: SAVEPOINT sent, not yet left.
InScope(t) == task[t].pc \in {"creating", "stmt", "body", "awaitChild", "rollingback"}

TopLevel(t) ==
  task[t].pc # "idle" /\ ~IsInTransaction(task[t]) /\ task[t].transactionClient # 0

\* C1: at most one top-level wrapInSavepoint scope is open at a time, also
\* when the body of a top-level operation opens nested $transaction scopes.
C1_OneTopLevelScope ==
  Cardinality({t \in Tasks : TopLevel(t) /\ InScope(t)}) <= 1

\* C2: top-level operations open their savepoints in the order in which they
\* reached the lock: while an operation waits for the lock, no operation that
\* arrived after it has been given a savepoint.
C2_FifoAcquisition ==
  \A i \in Tasks : \A j \in Tasks :
    (i < j /\ TopLevel(i) /\ TopLevel(j) /\ task[i].pc = "waiting")
       => task[j].savepointName = -1

\* C3: startNewTransaction called while a session is open (its end signal is
\* stored) fails with AlreadyActiveError and leaves the client, the end
\* signal, the savepoint counter and the underlying transactions as they were.
C3_StartWhileOpenFails ==
  [][(endCurrentTransactionPromise # 0 /\ StartNewTransaction)
        => /\ lastCall' = [op |-> "start", err |-> "AlreadyActive"]
           /\ UNCHANGED <<currentPrismaTransactionClient,
                          endCurrentTransactionPromise, savepointId, txStarted, tx>>]_vars

\* C3 witness: the call has failed in a session that has created a savepoint.
C3_Witness ==
  /\ lastCall = [op |-> "start", err |-> "AlreadyActive"]
  /\ endCurrentTransactionPromise # 0
  /\ savepointId > 0

\* C4: rollbackCurrentTransaction called while no session is open fails with
\* NoActiveTransactionError and signals no transaction to end.
C4_RollbackWhileClosedFails ==
  [][(endCurrentTransactionPromise = 0 /\ RollbackCurrentTransaction)
        => /\ lastCall' = [op |-> "rollback", err |-> "NoActiveTransaction"]
           /\ UNCHANGED <<tx, endCurrentTransactionPromise>>]_vars

\* C4 witness: the second rollback in a row has failed.
C4_Witness ==
  /\ lastCall = [op |-> "rollback", err |-> "NoActiveTransaction"]
  /\ \E s \in Sessions : tx[s] \in {"ending", "rolledback"}

\* C5: at most one outer transaction is open or being opened.
C5_AtMostOneOuterTransaction ==
  Cardinality({s \in Sessions : tx[s] \in {"starting", "open"}}) <= 1


\* Rows committed by queries the proxy relayed to the original client.
DirectWrites ==
  {task[t].stmts[1] :
     t \in {u \in Tasks : /\ task[u].transactionClient = 0
                          /\ \/ task[u].pc = "direct" /\ task[u].io
                             \/ task[u].pc = "done" /\ task[u].result = "ok"}}

\* The operations that ran on the client of session s.
OpsOf(s) ==
  {t \in Tasks : task[t].pc # "idle"
                 /\ (task[t].transactionClient = s \/ task[t].cbClient = s)}

\* C6: a session's outer transaction is never committed: once it has ended,
\* it has been rolled back and the committed rows are those from before
\* startNewTransaction (with what the original client committed on its own).
C6_NeverCommitted ==
  \A s \in Sessions :
    tx[s] \in {"rolledback", "committed"}
      => /\ tx[s] = "rolledback"
         /\ dbCommitted = dbBefore[s] \cup DirectWrites

\* C6 witness: a session has ended after one operation inserted a row in it
\* and another one failed in it.
C6_Witness ==
  \E s \in Sessions :
    /\ tx[s] = "rolledback"
    /\ \E t \in OpsOf(s) : task[t].result = "ok" /\ task[t].wrote # {}
    /\ \E t \in OpsOf(s) : task[t].result = "Db"

\* Some operation of the session has failed, or is failing.
SessionFailed(s) ==
  \E t \in OpsOf(s) :
    \/ ~task[t].io
    \/ task[t].err \notin {"none", "ok"}
    \/ task[t].result \notin {"none", "ok"}

\* C7: as long as no operation of the session fails, the rows visible in the
\* session are those a plain transaction holds after the same queries in the
\* same order.
C7_SavepointsInvisible ==
  \A s \in Sessions :
    (DbOpen(s) /\ ~SessionFailed(s)) => db[s].data = plain[s]

\* C7 witness: two operations of one session have completed, each has written,
\* nothing has failed.
C7_Witness ==
  \E s \in Sessions :
    /\ DbOpen(s) /\ ~SessionFailed(s)
    /\ \E t \in OpsOf(s) : \E u \in OpsOf(s) :
         /\ t # u /\ TopLevel(t) /\ TopLevel(u)
         /\ task[t].result = "ok" /\ task[u].result = "ok"
         /\ task[t].wrote # {} /\ task[u].wrote # {}
         /\ task[t].kind = "query" /\ task[u].kind # "query"

\* C8: what an operation wrote before it completed successfully stays visible
\* in its session, whatever fails later; what a failed operation wrote is not
\* visible; and the transaction is not left aborted once no scope is open.
C8_FailureUndoesOnlyItsScope ==
  \A s \in Sessions :
    DbOpen(s) =>
      /\ \A t \in OpsOf(s) :
           (TopLevel(t) /\ task[t].result = "ok") => task[t].wrote \subseteq db[s].data
      /\ (\A t \in OpsOf(s) : task[t].pc = "done") => ~db[s].aborted

\* C9: the end-to-end scenario.  Once insert A (operation 1) and then
\* $transaction([insert B, failing insert C]) (operation 2) have settled, A is
\* in the session and B and C are not; operation 1 used savepoint 0,
\* operation 2 used savepoint 1 alone, and rolled it back; once the session
\* is rolled back A is gone as well.
C9_EndToEnd ==
  task[2].pc = "done" =>
    LET A == task[1].stmts[1]
        B == task[2].stmts[1]
        C == -task[2].stmts[2]
    IN /\ task[1].result = "ok" /\ task[2].result = "Db"
       /\ sql[1] = << <<"SAVEPOINT", 0, 1>>, <<"SAVEPOINT", 1, 2>>,
                      <<"ROLLBACK", 1, 2>> >>
       /\ DbOpen(1) => (A \in db[1].data /\ B \notin db[1].data /\ C \notin db[1].data)
       /\ tx[1] = "rolledback" => {A, B, C} \cap dbCommitted = {}

\* C9 witness: the scenario has run to the end of the session.
C9_Witness ==
  /\ task[1].result = "ok" /\ task[1].wrote # {}
  /\ task[2].pc = "done" /\ task[2].kind = "txarr" /\ Len(task[2].stmts) = 2
  /\ tx[1] = "rolledback"

\* The numbers of the SAVEPOINT commands sent on the client of session s.
SavepointsSent(s) == SelectSeq(sql[s], LAMBDA c : c[1] = "SAVEPOINT")

\* C10: the SAVEPOINT commands sent on one session's client carry strictly
\* increasing numbers, the first of them 0.
C10_NamesNeverReused ==
  \A s \in Sessions :
    LET q == SavepointsSent(s)
    IN /\ \A i \in 1..Len(q) : \A j \in 1..Len(q) : i < j => q[i][2] < q[j][2]
       /\ q # <<>> => q[1][2] = 0

\* ------------------------------------------------------ specifications
\* Sessions after sessions, with delegate queries issued at any moment.
Next ==
  \/ StartNewTransaction
  \/ RollbackCurrentTransaction
  \/ \E s \in Sessions : TxBegin(s)
  \/ \E s \in Sessions : TxFail(s)
  \/ \E s \in Sessions : TxEnd(s)
  \/ (issued < MaxOps /\ \E st \in StmtsOver(FewRows) : DirectQuery(st))
  \/ \E t \in Tasks : DirectDone(t)
  \/ (issued < MaxOps /\ \E a \in ArgsOf("query", FewRows) : IssueTop("query", a))
  \/ WakeWaiter
  \/ EnterLocked
  \/ \E t \in Tasks : AfterSavepoint(t)
  \/ \E t \in Tasks : StmtDone(t)
  \/ \E t \in Tasks : AfterRollback(t)

Spec == Init /\ [][Next]_vars

\* One session, with operations of every kind, nested and concurrent.
NextScopes ==
  \/ (txStarted = 0 /\ StartNewTransaction)
  \/ \E s \in Sessions : TxBegin(s)
  \/ (issued < MaxOps /\ \E k \in Kinds : \E a \in ArgsOf(k, NRows) : IssueTop(k, a))
  \/ WakeWaiter
  \/ EnterLocked
  \/ \E t \in Tasks : AfterSavepoint(t)
  \/ \E t \in Tasks : StmtDone(t)
  \/ \E t \in Tasks : AfterRollback(t)
  \/ \E t \in Tasks : \E st \in StmtsOver(NRows) : BodyStmt(t, st)
  \/ (issued < MaxOps
        /\ \E p \in Tasks : \E k \in NestedKinds : \E a \in ArgsOf(k, NRows) : IssueNested(p, k, a))
  \/ \E p \in Tasks : ChildDone(p)
  \/ \E p \in Tasks : ChildThrow(p)
  \/ \E t \in Tasks : BodyReturn(t)
  \/ \E t \in Tasks : BodyThrow(t)

SpecScopes == Init /\ [][NextScopes]_vars

\* One session; every top-level operation is issued while no continuation of
\* the lock is queued (no call arrives between a release and the wake-up of
\* the waiters), and callbacks make nested $transaction calls.
NextFifo ==
  \/ (txStarted = 0 /\ StartNewTransaction)
  \/ \E s \in Sessions : TxBegin(s)
  \/ (microtasks = <<>>
        /\ \E k \in {"query", "txfn"} : \E a \in ArgsOf(k, FewRows) : IssueTop(k, a))
  \/ WakeWaiter
  \/ EnterLocked
  \/ \E t \in Tasks : AfterSavepoint(t)
  \/ \E t \in Tasks : StmtDone(t)
  \/ \E t \in Tasks : AfterRollback(t)
  \/ \E p \in Tasks : \E a \in ArgsOf("txarr", FewRows) : IssueNested(p, "txarr", a)
  \/ \E p \in Tasks : ChildDone(p)
  \/ \E t \in Tasks : BodyReturn(t)

SpecFifo == Init /\ [][NextFifo]_vars

\* startNewTransaction is awaited: it is not called again while the callback
\* of an earlier call has not run yet.  Queries are issued at any moment.
NextAwaitedStart ==
  \/ ((\A s \in Sessions : tx[s] # "starting") /\ StartNewTransaction)
  \/ RollbackCurrentTransaction
  \/ \E s \in Sessions : TxBegin(s)
  \/ \E s \in Sessions : TxEnd(s)
  \/ (issued < MaxOps /\ \E a \in ArgsOf("query", FewRows) : IssueTop("query", a))
  \/ WakeWaiter
  \/ EnterLocked
  \/ \E t \in Tasks : AfterSavepoint(t)
  \/ \E t \in Tasks : StmtDone(t)
  \/ \E t \in Tasks : AfterRollback(t)

SpecAwaitedStart == Init /\ [][NextAwaitedStart]_vars

\* The end-to-end scenario: one session; insert A, awaited; then
\* $transaction([insert B, failing insert C]), awaited; then the rollback.
E2EInsertA ==
  /\ issued = 0
  /\ endCurrentTransactionPromise # 0
  /\ \E a \in 1..E2ERows : IssueTop("query", <<a>>)

E2ETransaction ==
  /\ issued = 1
  /\ task[1].pc = "done"
  /\ \E b \in 1..E2ERows : \E c \in 1..E2ERows :
       /\ Cardinality({task[1].stmts[1], b, c}) = 3
       /\ IssueTop("txarr", <<b, -c>>)

E2ERollback ==
  /\ issued = 2
  /\ task[2].pc = "done"
  /\ endCurrentTransactionPromise # 0
  /\ RollbackCurrentTransaction

NextE2E ==
  \/ (txStarted = 0 /\ StartNewTransaction)
  \/ \E s \in Sessions : TxBegin(s)
  \/ E2EInsertA
  \/ E2ETransaction
  \/ E2ERollback
  \/ \E s \in Sessions : TxEnd(s)
  \/ EnterLocked
  \/ \E t \in Tasks : AfterSavepoint(t)
  \/ \E t \in Tasks : StmtDone(t)
  \/ \E t \in Tasks : AfterRollback(t)

SpecE2E == Init /\ [][NextE2E]_vars

\* ------------------------------------------------- the batch release
\* A session in which WarmSavepoints calls of proxy.$transaction([]) have been
\* awaited one after the other: each took the lock, created its savepoint,
\* returned and released the lock (frame 0 stands for those calls).
InitWarm ==
  /\ currentPrismaTransactionClient = 1
  /\ endCurrentTransactionPromise = 1
  /\ savepointId = WarmSavepoints
  /\ transactionLock = 0
  /\ waiters = [t \in Tasks |-> <<>>]
  /\ microtasks = <<>>
  /\ task = [t \in Tasks |-> IdleTask]
  /\ issued = 0
  /\ tx = [s \in Sessions |-> IF s = 1 THEN "open" ELSE "unused"]
  /\ db = [s \in Sessions |->
             IF s = 1
             THEN [EmptyDb EXCEPT !.sps = [i \in 1..WarmSavepoints |->
                                             [n |-> i - 1, snap |-> {}]]]
             ELSE EmptyDb]
  /\ dbCommitted = {}
  /\ dbBefore = [s \in Sessions |-> {}]
  /\ sql = [s \in Sessions |->
              IF s = 1 THEN [i \in 1..WarmSavepoints |-> <<"SAVEPOINT", i - 1, 0>>]
              ELSE <<>>]
  /\ txStarted = 1
  /\ lastCall = [op |-> "start", err |-> "none"]
  /\ plain = [s \in Sessions |-> {}]

NextCap ==
  \/ (issued < MaxOps /\ \E k \in Kinds : \E a \in ArgsOf(k, FewRows) : IssueTop(k, a))
  \/ WakeWaiter
  \/ EnterLocked
  \/ \E t \in Tasks : AfterRelease(t)
  \/ \E t \in Tasks : AfterSavepoint(t)
  \/ \E t \in Tasks : StmtDone(t)
  \/ \E t \in Tasks : AfterRollback(t)
  \/ \E t \in Tasks : \E st \in StmtsOver(FewRows) : BodyStmt(t, st)
  \/ (issued < MaxOps
        /\ \E p \in Tasks : \E k \in NestedKinds : \E a \in ArgsOf(k, FewRows) : IssueNested(p, k, a))
  \/ \E p \in Tasks : ChildDone(p)
  \/ \E p \in Tasks : ChildThrow(p)
  \/ \E t \in Tasks : BodyReturn(t)
  \/ \E t \in Tasks : BodyThrow(t)

SpecCap == InitWarm /\ [][NextCap]_vars

\* The RELEASE SAVEPOINT commands sent on client s before its i-th command.
ReleasedBefore(s, i) ==
  {sql[s][j][2] : j \in {k \in 1..(i - 1) : sql[s][k][1] = "RELEASE"}}

\* C11: the savepoints that exist on a session's connection never number more
\* than the cap plus one, and a SAVEPOINT command whose number has reached the
\* cap is sent only after the RELEASE SAVEPOINT of the oldest savepoint of the
\* batch before it.
C11_LiveSavepointsBounded ==
  \A s \in Sessions :
    /\ Len(db[s].sps) <= MAX_ACTIVE_SAVEPOINTS + 1
    /\ \A i \in 1..Len(sql[s]) :
         (sql[s][i][1] = "SAVEPOINT" /\ sql[s][i][2] >= MAX_ACTIVE_SAVEPOINTS)
           => (sql[s][i][2] - (sql[s][i][2] % MAX_ACTIVE_SAVEPOINTS)
                 - MAX_ACTIVE_SAVEPOINTS) \in ReleasedBefore(s, i)

\* C11 witness: the cap has been reached, the batch has been released and the
\* next savepoint exists on the connection.
C11_Witness ==
  /\ savepointId > MAX_ACTIVE_SAVEPOINTS
  /\ \E i \in 1..Len(db[1].sps) : db[1].sps[i].n = MAX_ACTIVE_SAVEPOINTS
  /\ \E i \in 1..Len(sql[1]) : sql[1][i][1] = "RELEASE"

\* ------------------------------------------------------------- routing
\* The client a property read on the proxy client is routed to (lines 33-51);
\* 0 is the original client.
RoutedClient == currentPrismaTransactionClient

\* The most recent startNewTransaction call has returned and its session has
\* not been rolled back.
NewestSessionOpen ==
  /\ txStarted > 0
  /\ tx[txStarted] = "open"
  /\ endCurrentTransactionPromise = txStarted

\* C12: once startNewTransaction has returned, the proxy client routes to the
\* client of that newest session, and the session begins with the savepoint
\* counter at 0: as long as no SAVEPOINT has been sent on its client the
\* counter is 0.
C12_RoutedToNewestSession ==
  NewestSessionOpen =>
    /\ RoutedClient = txStarted
    /\ (SavepointsSent(txStarted) = <<>> => savepointId = 0)

\* C12 without the counter: the proxy client routes to the newest session.
C12_RoutingOnly ==
  NewestSessionOpen => RoutedClient = txStarted

\* C13: while no session is open (no end signal is stored: before the first
\* startNewTransaction, and from rollbackCurrentTransaction until the next
\* startNewTransaction returns) the proxy client forwards to the original
\* client, and no operation is given the client of an ended session.
C13_ForwardedWhileClosed ==
  endCurrentTransactionPromise = 0 => RoutedClient = 0

\* ------------------------------------- client-level calls (proxy get, 50-57)
\* proxy.$executeRaw(...) and the like: the property exists on the transaction
\* client and is no delegate, so the proxy returns the transaction client's
\* own function (line 57) and the command goes to the connection as it is.
IssueRaw(st) ==
  /\ issued < NTasks
  /\ currentPrismaTransactionClient # 0
  /\ issued' = issued + 1
  /\ LET c == [op |-> "INSERT", n |-> st]
         s == currentPrismaTransactionClient
     IN /\ Send(s, c, issued + 1)
        /\ task' = [task EXCEPT ![issued + 1] =
                      [IdleTask EXCEPT !.kind = "raw", !.pc = "raw",
                                       !.stmts = <<st>>, !.transactionClient = s,
                                       !.io = Reply(s, c),
                                       !.wrote = IF Reply(s, c) THEN {st} ELSE {}]]
  /\ UNCHANGED <<savepointId, lockVars, lifecycleVars>>

\* The command has been answered: the caller gets the result or the failure.
RawDone(t) ==
  /\ task[t].pc = "raw"
  /\ microtasks = <<>>
  /\ task' = [task EXCEPT ![t] = [@ EXCEPT !.pc = "done",
                                           !.result = IF task[t].io THEN "ok" ELSE "Db"]]
  /\ UNCHANGED <<savepointId, lockVars, dbVars, lifecycleVars, issued>>

\* One session with delegate queries and client-level raw commands.
NextRaw ==
  \/ (txStarted = 0 /\ StartNewTransaction)
  \/ \E s \in Sessions : TxBegin(s)
  \/ (issued < MaxOps /\ \E a \in ArgsOf("query", NRows) : IssueTop("query", a))
  \/ (issued < MaxOps /\ \E st \in StmtsOver(NRows) : IssueRaw(st))
  \/ \E t \in Tasks : RawDone(t)
  \/ WakeWaiter
  \/ EnterLocked
  \/ \E t \in Tasks : AfterSavepoint(t)
  \/ \E t \in Tasks : StmtDone(t)
  \/ \E t \in Tasks : AfterRollback(t)

SpecRaw == Init /\ [][NextRaw]_vars

\* The savepoint a data-access call of frame t runs under: its own, or the one
\* of the callback it was made in; -1 if there is none.
ScopeOf(t) ==
  IF task[t].savepointName # -1 THEN task[t].savepointName
  ELSE IF task[t].parent # 0 THEN task[task[t].parent].savepointName
  ELSE -1

\* C14: while a session is open, every data-access command sent through the
\* proxy client runs under a savepoint, operations issued side by side hold
\* different savepoint names, and once every call has settled the session's
\* transaction is not left aborted by a failed call.
C14_EveryCallInSavepoint ==
  /\ \A t \in Tasks : task[t].pc \in {"stmt", "raw"} => ScopeOf(t) # -1
  /\ \A t \in Tasks : \A u \in Tasks :
       (t # u /\ task[t].transactionClient = task[u].transactionClient
          /\ task[t].savepointName # -1)
         => task[t].savepointName # task[u].savepointName
  /\ \A s \in Sessions :
       (DbOpen(s) /\ \A t \in Tasks : task[t].pc \in {"idle", "done"})
         => ~db[s].aborted

\* C14 for delegate operations alone.
C14_DelegateCallsInSavepoint ==
  /\ \A t \in Tasks : task[t].pc = "stmt" => ScopeOf(t) # -1
  /\ \A s \in Sessions :
       (DbOpen(s) /\ (\A t \in Tasks : task[t].pc \in {"idle", "done"})
          /\ \A t \in Tasks : task[t].kind # "raw")
         => ~db[s].aborted

\* ------------------------------- the deferred query (lines 77-125)
\* A handler given to catch: it returns v or throws v.
Handlers == {[does |-> d, v |-> x] : d \in {"return", "throw"}, x \in {"h1", "h2"}}
HandlerLists == UNION {[1..n -> Handlers] : n \in 0..MaxHandlers}

\* Lines 94-97: the handlers run in the order they were attached, each on what
\* the one before returned; the first that throws ends the loop (line 103).
RECURSIVE RunCatchCallbacks(_, _)
RunCatchCallbacks(error, cbs) ==
  IF cbs = <<>> THEN [threw |-> FALSE, error |-> error]
  ELSE IF Head(cbs).does = "throw" THEN [threw |-> TRUE, error |-> Head(cbs).v]
  ELSE RunCatchCallbacks(Head(cbs).v, Tail(cbs))

\* then(resolve, reject) of the deferred query whose wrapped call ended as
\* frame r records: resolve(value) (lines 87, 91), or the catch block
\* (lines 92-109), which calls reject with what the handlers left.
Then(r) ==
  IF r.result = "ok" THEN [state |-> "resolved", value |-> "value"]
  ELSE [state |-> "rejected",
        value |-> RunCatchCallbacks(r.result, r.catchCallbacks).error]

\* What `await p` delivers for a native promise p = op.catch(h1).catch(h2)...
\* whose operation ended as frame r records.
RECURSIVE NativeCatchChain(_, _)
NativeCatchChain(settled, cbs) ==
  IF cbs = <<>> THEN settled
  ELSE IF settled.state = "resolved" THEN settled
  ELSE NativeCatchChain(
         [state |-> IF Head(cbs).does = "throw" THEN "rejected" ELSE "resolved",
          value |-> Head(cbs).v],
         Tail(cbs))

\* A delegate query with handlers attached, awaited outside every scope.
IssueCaught(a, cbs) ==
  /\ issued < NTasks
  /\ currentPrismaTransactionClient # 0
  /\ issued' = issued + 1
  /\ AcquireTransactionLock(task, issued + 1,
        [IdleTask EXCEPT !.kind = "query", !.stmts = a, !.catchCallbacks = cbs,
                         !.delegateClient = DelegateOf("query"),
                         !.transactionClient = currentPrismaTransactionClient],
        microtasks)
  /\ UNCHANGED <<savepointId, dbVars, lifecycleVars>>

NextHandle ==
  \/ (txStarted = 0 /\ StartNewTransaction)
  \/ \E s \in Sessions : TxBegin(s)
  \/ (issued < HandleOps
        /\ \E a \in ArgsOf("query", FewRows) : \E cbs \in HandlerLists : IssueCaught(a, cbs))
  \/ WakeWaiter
  \/ EnterLocked
  \/ \E t \in Tasks : AfterSavepoint(t)
  \/ \E t \in Tasks : StmtDone(t)
  \/ \E t \in Tasks : AfterRollback(t)

SpecHandle == Init /\ [][NextHandle]_vars

\* C15: the deferred query behaves as a native promise does: when the query
\* fails and one handler was attached with catch, awaiting it resolves with
\* what the handler returns; when the query succeeds the handlers are not
\* called and the query's result is delivered.
C15_CatchContract ==
  \A t \in Tasks :
    (task[t].pc = "done" /\ task[t].kind = "query")
      => Then(task[t]) =
           NativeCatchChain([state |-> IF task[t].result = "ok" THEN "resolved"
                                       ELSE "rejected",
                             value |-> IF task[t].result = "ok" THEN "value"
                                       ELSE task[t].result],
                            task[t].catchCallbacks)

\* C15 for a query that succeeds, or whose handlers throw.
C15_SuccessOrRethrow ==
  \A t \in Tasks :
    (task[t].pc = "done" /\ task[t].kind = "query"
       /\ (task[t].result = "ok"
             \/ (Len(task[t].catchCallbacks) = 1
                   /\ task[t].catchCallbacks[1].does = "throw")))
      => Then(task[t]) =
           NativeCatchChain([state |-> IF task[t].result = "ok" THEN "resolved"
                                       ELSE "rejected",
                             value |-> IF task[t].result = "ok" THEN "value"
                                       ELSE task[t].result],
                            task[t].catchCallbacks)

\* ------------------------------------------------ the stale snapshot
\* C16: a savepoint command (RELEASE SAVEPOINT, SAVEPOINT, ROLLBACK TO
\* SAVEPOINT) is sent on a client only while that client is the one the helper
\* stores: once the session has changed, an operation that snapshotted the
\* earlier client sends nothing on it.
C16_NoCommandOnStaleClient ==
  [][\A s \in Sessions :
       Len(sql'[s]) > Len(sql[s]) => currentPrismaTransactionClient = s]_vars

\* C16 for the commands sent right after the check of line 172, with no await
\* in between.
C16_CheckedBeforeSavepoint ==
  [][\A s \in Sessions :
       (Len(sql'[s]) > Len(sql[s]) /\ sql'[s][Len(sql'[s])][1] # "ROLLBACK")
         => currentPrismaTransactionClient = s]_vars

\* --------------------------------------- operations with no session open
\* One session is opened and rolled back; the operations are invoked through
\* the proxy client while no session is open.
NextClosed ==
  \/ (txStarted = 0 /\ StartNewTransaction)
  \/ \E s \in Sessions : TxBegin(s)
  \/ (endCurrentTransactionPromise # 0 /\ RollbackCurrentTransaction)
  \/ \E s \in Sessions : TxEnd(s)
  \/ (issued < MaxOps /\ endCurrentTransactionPromise = 0
        /\ \E st \in StmtsOver(FewRows) : DirectQuery(st))
  \/ \E t \in Tasks : DirectDone(t)
  \/ (issued < MaxOps /\ endCurrentTransactionPromise = 0
        /\ \E k \in {"query", "txarr"} : \E a \in ArgsOf(k, FewRows) : IssueTop(k, a))
  \/ WakeWaiter
  \/ EnterLocked
  \/ \E t \in Tasks : AfterSavepoint(t)
  \/ \E t \in Tasks : StmtDone(t)
  \/ \E t \in Tasks : AfterRollback(t)

SpecClosed == Init /\ [][NextClosed]_vars

\* C17: a savepoint operation invoked while no session is open fails with
\* NoActiveTransactionError, is given no savepoint, sends no savepoint
\* command, leaves the counter where it was and leaves the lock free once it
\* has failed.
C17_NoSessionNoSavepoint ==
  /\ savepointId = 0
  /\ \A s \in Sessions : sql[s] = <<>>
  /\ \A t \in Tasks :
       task[t].transactionClient # 0
         => /\ task[t].savepointName = -1
            /\ task[t].pc = "done" => task[t].result = "NoActiveTransaction"
  /\ (\A t \in Tasks : task[t].pc \in {"idle", "done"}) => transactionLock = 0

\* C17, the part about the lock.
C17_LockFreeAfterwards ==
  (\A t \in Tasks : task[t].pc \in {"idle", "done"}) => transactionLock = 0

\* ------------------------------------------- failures inside the scope
\* Frame t leaves wrapInSavepoint in this step.
Exits(t) == task[t].pc # "done" /\ task'[t].pc = "done"

\* Command c of frame t is in the log of the commands sent on client s.
Sent(log, c, n, t) == \E i \in 1..Len(log) : log[i] = <<c, n, t>>

\* C18: a $transaction call whose argument is neither an array nor a function
\* and whose savepoint was created fails with InvalidTransactionArgumentError;
\* when it has failed its savepoint has been rolled back (ROLLBACK TO SAVEPOINT
\* was sent and succeeded, which leaves the transaction usable) and the call
\* no longer holds the lock.
C18_InvalidArgumentFails ==
  [][\A t \in Tasks :
       (Exits(t) /\ task[t].kind = "txbad" /\ task[t].err = "InvalidArgument")
         => /\ task'[t].result = "InvalidArgument"
            /\ Sent(sql'[task[t].transactionClient], "ROLLBACK",
                    task[t].savepointName, t)
            /\ task[t].io
            /\ transactionLock' # t]_vars

\* C18 witness: a top-level and a nested call with an invalid argument have
\* both failed with InvalidTransactionArgumentError.
C18_Witness ==
  \E t \in Tasks : \E u \in Tasks :
    /\ task[t].kind = "txbad" /\ task[t].parent = 0
    /\ task[u].kind = "txbad" /\ task[u].parent # 0
    /\ task[t].result = "InvalidArgument" /\ task[u].result = "InvalidArgument"

\* The callback catches the failure of a query it awaited and goes on.
BodyCatch(t) ==
  /\ task[t].pc = "stmt"
  /\ task[t].kind = "txfn"
  /\ ~task[t].io
  /\ microtasks = <<>>
  /\ task' = [task EXCEPT ![t] = [@ EXCEPT !.pc = "body"]]
  /\ UNCHANGED <<savepointId, lockVars, dbVars, lifecycleVars, issued>>

\* One session and one top-level proxy.$transaction(callback): the callback
\* runs queries, may catch their failures, and makes nested calls.
NextCatch ==
  \/ (txStarted = 0 /\ StartNewTransaction)
  \/ \E s \in Sessions : TxBegin(s)
  \/ (issued = 0 /\ IssueTop("txfn", <<>>))
  \/ EnterLocked
  \/ \E t \in Tasks : AfterSavepoint(t)
  \/ \E t \in Tasks : StmtDone(t)
  \/ \E t \in Tasks : AfterRollback(t)
  \/ \E t \in Tasks : \E st \in StmtsOver(NRows) : BodyStmt(t, st)
  \/ \E t \in Tasks : BodyCatch(t)
  \/ (issued < MaxOps
        /\ \E p \in Tasks : \E k \in NestedKinds : \E a \in ArgsOf(k, NRows) : IssueNested(p, k, a))
  \/ \E p \in Tasks : ChildDone(p)
  \/ \E p \in Tasks : ChildThrow(p)
  \/ \E t \in Tasks : BodyReturn(t)
  \/ \E t \in Tasks : BodyThrow(t)

SpecCatch == Init /\ [][NextCatch]_vars

\* C19: when the wrapped operation fails (or the SAVEPOINT command does),
\* ROLLBACK TO SAVEPOINT has been sent on the snapshot client for the name the
\* invocation created, and the invocation raises that original failure.
C19_OriginalFailureRaised ==
  [][\A t \in Tasks :
       (Exits(t) /\ task[t].err \notin {"none", "ok"})
         => /\ Sent(sql'[task[t].transactionClient], "ROLLBACK",
                    task[t].savepointName, t)
            /\ task'[t].result = task[t].err]_vars

\* C19, the part about the command: the rollback names the invocation's own
\* savepoint on the snapshot client.
C19_RollbackNamesOwnSavepoint ==
  [][\A t \in Tasks :
       (Exits(t) /\ task[t].err \notin {"none", "ok"})
         => Sent(sql'[task[t].transactionClient], "ROLLBACK",
                 task[t].savepointName, t)]_vars

\* C20: an invocation that created its savepoint leaves wrapInSavepoint with
\* exactly one closing command sent for that savepoint on the snapshot client:
\* RELEASE SAVEPOINT when it returns, ROLLBACK TO SAVEPOINT when it throws.
C20_ReleasedOrRolledBack ==
  [][\A t \in Tasks :
       (Exits(t) /\ task[t].savepointName # -1)
         => LET log == sql'[task[t].transactionClient]
                n == task[t].savepointName
            IN IF task'[t].result = "ok"
               THEN Sent(log, "RELEASE", n, t) /\ ~Sent(log, "ROLLBACK", n, t)
               ELSE Sent(log, "ROLLBACK", n, t) /\ ~Sent(log, "RELEASE", n, t)]_vars

\* C20 for the invocations that throw.
C20_RolledBackOnFailure ==
  [][\A t \in Tasks :
       (Exits(t) /\ task[t].savepointName # -1 /\ task'[t].result # "ok")
         => LET log == sql'[task[t].transactionClient]
                n == task[t].savepointName
            IN Sent(log, "ROLLBACK", n, t) /\ ~Sent(log, "RELEASE", n, t)]_vars

\* ------------------------------------------------------------ the lock
\* The event loop runs every continuation that is ready and every callback
\* returns or throws: no step that can be taken is put off for ever.
SpecFifoFair == SpecFifo /\ WF_vars(NextFifo)

\* C21: a top-level invocation that acquired the lock gives it up on every
\* exit and wakes the operations waiting on its promise, and every operation
\* that waits for the lock acquires it in the end.
C21_LockReleasedAndAcquired ==
  /\ [][\A t \in Tasks :
          (Exits(t) /\ task[t].lockResolve # 0)
            => /\ transactionLock' # t
               /\ waiters'[t] = <<>>
               /\ \A i \in 1..Len(waiters[t]) :
                    \E j \in 1..Len(microtasks') : microtasks'[j] = waiters[t][i]]_vars
  /\ \A t \in Tasks : (task[t].pc = "waiting") ~> (task[t].lockResolve = t)

\* C21 witness: an operation that held the lock has failed, the lock is free
\* and the operation that waited on its promise has been woken.
C21_Witness ==
  \E t \in Tasks : \E u \in Tasks :
    /\ task[u].pc = "done" /\ task[u].lockResolve = u /\ task[u].result # "ok"
    /\ task[t].pc = "waiting"
    /\ \E j \in 1..Len(microtasks) : microtasks[j] = t
    /\ transactionLock = 0

\* C22: an invocation that did not acquire the lock (it runs nested inside an
\* open scope) leaves transactionLock as it was when it exits: the lock stays
\* with the enclosing top-level operation.
C22_NestedExitKeepsLock ==
  [][\A t \in Tasks :
       (Exits(t) /\ task[t].lockResolve = 0) => transactionLock' = transactionLock]_vars

\* The top-level operation in whose call chain frame t of the frames tk runs.
RECURSIVE Root(_, _)
Root(tk, t) == IF tk[t].parent = 0 THEN t ELSE Root(tk, tk[t].parent)

\* C23: every savepoint command is sent while the lock is held by the
\* top-level operation in whose scope the sending invocation runs.
C23_CommandsUnderLock ==
  [][\A s \in Sessions :
       Len(sql'[s]) > Len(sql[s])
         => transactionLock = Root(task', sql'[s][Len(sql'[s])][3])]_vars

\* C24: a $transaction call made inside an open scope takes no part in the
\* lock (it never waits for it, never holds it) and has its own savepoint,
\* different from the enclosing one, as soon as it is made.
C24_NestedRunsInline ==
  \A t \in Tasks :
    (task[t].pc # "idle" /\ task[t].parent # 0)
      => /\ task[t].lockResolve = 0
         /\ task[t].pc \notin {"waiting", "locked"}
         /\ \A u \in Tasks : \A i \in 1..Len(waiters[u]) : waiters[u][i] # t
         /\ task[t].savepointName # -1
         /\ task[t].savepointName # task[task[t].parent].savepointName

\* C24 witness: a nested call has its savepoint while a top-level operation
\* is waiting for the lock.
C24_Witness ==
  \E t \in Tasks : \E w \in Tasks :
    /\ task[t].parent # 0 /\ task[t].pc = "creating"
    /\ task[w].parent = 0 /\ task[w].pc = "waiting"

\* ------------------------------------------------ the ambient marker
\* The SAVEPOINT commands frame t has sent on client s.
SavepointsOf(s, t) ==
  Cardinality({i \in 1..Len(sql[s]) : sql[s][i][1] = "SAVEPOINT" /\ sql[s][i][3] = t})

\* C25: a delegate query awaited inside a scope is sent as it is, with no
\* savepoint command, no new savepoint number and no change to the lock; a
\* delegate query awaited outside every scope is sent after its invocation
\* acquired the lock and created exactly one savepoint.
C25_SavepointIffOutsideScope ==
  [][/\ \A t \in Tasks : \A st \in StmtsOver(NRows) :
          BodyStmt(t, st) => UNCHANGED <<savepointId, sql, transactionLock,
                                         waiters, microtasks>>
     /\ \A t \in Tasks :
          (task'[t].kind = "query" /\ task'[t].pc = "stmt" /\ task[t].pc # "stmt")
            => /\ task'[t].parent = 0
               /\ task'[t].lockResolve = t
               /\ task'[t].savepointName # -1
               /\ SavepointsOf(task'[t].transactionClient, t) = 1]_vars

\* C25 witness: a query awaited outside every scope has completed in its own
\* savepoint and a query awaited inside a callback is in flight.
C25_Witness ==
  \E t \in Tasks : \E u \in Tasks :
    /\ task[t].kind = "query" /\ task[t].pc = "done" /\ task[t].result = "ok"
    /\ task[t].savepointName # -1
    /\ task[u].kind = "txfn" /\ task[u].pc = "stmt"

\* ------------------------------------------- $transaction([...]) (138-144)
\* ret of transactionProxyFunction: the results pushed so far, in loop order
\* (the result of an insert is the row it inserted).
Ret(r) == SubSeq(r.stmts, 1, r.steps)

\* C26: $transaction([q1..qN]) sends one SAVEPOINT for the whole call and none
\* per query; the queries run in the order of the array, each after the one
\* before it was answered; when all have succeeded the results are returned
\* in the positions of their queries; when query k fails the later ones are
\* not run, ROLLBACK TO SAVEPOINT is sent and succeeds, and nothing the call
\* wrote is left.
C26_ArrayRunsInOneSavepoint ==
  [][\A t \in Tasks :
       task'[t].kind = "txarr"
         => LET r == task'[t]
                s == r.transactionClient
            IN /\ Cardinality({i \in 1..Len(sql'[s]) :
                                 sql'[s][i][1] = "SAVEPOINT" /\ sql'[s][i][3] = t}) <= 1
               /\ r.wrote \subseteq {r.stmts[i] : i \in 1..Len(Ret(r))}
                                      \cup (IF r.pc = "stmt" THEN {r.stmts[r.steps + 1]} ELSE {})
               /\ (r.pc = "stmt" /\ r.steps > 0) => r.stmts[r.steps] \in r.wrote
               /\ (Exits(t) /\ r.result = "ok") => Ret(r) = r.stmts
               /\ (Exits(t) /\ r.savepointName # -1 /\ r.result # "ok")
                    => /\ r.steps < Len(r.stmts) \/ r.stmts = <<>>
                       /\ Sent(sql'[s], "ROLLBACK", r.savepointName, t)
               /\ (task[t].pc # "rollingback" /\ r.pc = "rollingback")
                    => r.io /\ db'[s].data \cap r.wrote = {}]_vars


\* ------------------------------------------ $transaction(callback) (145-147)
\* Sessions are started and rolled back, startNewTransaction being awaited;
\* $transaction(callback) is called at any moment and the callback runs
\* queries on the client it was given.
NextCallback ==
  \/ ((\A s \in Sessions : tx[s] # "starting") /\ StartNewTransaction)
  \/ RollbackCurrentTransaction
  \/ \E s \in Sessions : TxBegin(s)
  \/ \E s \in Sessions : TxEnd(s)
  \/ (issued < MaxOps /\ IssueTop("txfn", <<>>))
  \/ WakeWaiter
  \/ EnterLocked
  \/ \E t \in Tasks : AfterSavepoint(t)
  \/ \E t \in Tasks : StmtDone(t)
  \/ \E t \in Tasks : AfterRollback(t)
  \/ \E t \in Tasks : \E st \in StmtsOver(FewRows) : BodyStmt(t, st)
  \/ \E t \in Tasks : BodyReturn(t)

SpecCallback == Init /\ [][NextCallback]_vars

\* C27: the callback of $transaction(callback) is given the client the call
\* snapshotted, the one its SAVEPOINT was sent on, never the client of a
\* session started after the call was made.
C27_CallbackGetsSnapshot ==
  \A t \in Tasks :
    (task[t].kind = "txfn" /\ task[t].cbClient # 0)
      => task[t].cbClient = task[t].transactionClient

\* C27, the part that holds: the callback is entered once, after the SAVEPOINT
\* of its call has succeeded, and the call returns what the callback returns.
C27_CallbackRunsOnce ==
  [][\A t \in Tasks :
       task'[t].kind = "txfn"
         => /\ (task[t].cbClient # 0 => task'[t].cbClient = task[t].cbClient)
            /\ (task[t].cbClient = 0 /\ task'[t].cbClient # 0)
                 => (task[t].pc = "creating" /\ task[t].io /\ task'[t].pc = "body")
            /\ (task[t].pc = "body" /\ Exits(t) /\ task[t].err = "none"
                  /\ task'[t].savepointName = task[t].savepointName
                  /\ task'[t].result # "User")
                 => task'[t].result = "ok"]_vars

\* ------------------------------------ the asyncLocalStorage store (83, 185)
\* A continuation that the callback of p started and did not await (a timer,
\* an async function called without await) awaits a delegate query.  The
\* continuation was created inside asyncLocalStorage.run (line 185), so it
\* carries the store of p, during the callback and after it; line 83 reads a
\* savepoint name and the query goes to the delegate as it is (line 90).
IssueDetached(p, st) ==
  /\ issued < NTasks
  /\ task[p].kind = "txfn"
  /\ task[p].cbClient # 0
  /\ currentPrismaTransactionClient # 0
  /\ issued' = issued + 1
  /\ LET c == [op |-> "INSERT", n |-> st]
         s == currentPrismaTransactionClient
     IN /\ Send(s, c, issued + 1)
        /\ task' = [task EXCEPT ![issued + 1] =
                      [IdleTask EXCEPT !.pc = "raw", !.parent = p,
                                       !.stmts = <<st>>, !.transactionClient = s,
                                       !.io = Reply(s, c),
                                       !.wrote = IF Reply(s, c) THEN {st} ELSE {}]]
  /\ UNCHANGED <<savepointId, lockVars, lifecycleVars>>

\* One session; callbacks run queries and start continuations they do not
\* await, while other operations are issued outside every scope.
NextStore ==
  \/ (txStarted = 0 /\ StartNewTransaction)
  \/ \E s \in Sessions : TxBegin(s)
  \/ (issued < MaxOps
        /\ \E k \in {"query", "txfn"} : \E a \in ArgsOf(k, FewRows) : IssueTop(k, a))
  \/ WakeWaiter
  \/ EnterLocked
  \/ \E t \in Tasks : AfterSavepoint(t)
  \/ \E t \in Tasks : StmtDone(t)
  \/ \E t \in Tasks : AfterRollback(t)
  \/ \E t \in Tasks : \E st \in StmtsOver(FewRows) : BodyStmt(t, st)
  \/ \E t \in Tasks : BodyReturn(t)
  \/ (issued < MaxOps
        /\ \E p \in Tasks : \E st \in StmtsOver(FewRows) : IssueDetached(p, st))
  \/ \E t \in Tasks : RawDone(t)

SpecStore == Init /\ [][NextStore]_vars

\* The operation of invocation p is running: its SAVEPOINT has succeeded and
\* its function has not returned or thrown yet.
Running(p) == task[p].pc \in {"body", "stmt", "awaitChild"}

\* C28: an operation observes the marker of a scope only while the operation
\* of that scope runs: when an operation that observes a marker is issued, the
\* invocation the marker belongs to has not left its function.
C28_MarkerOnlyWhileScopeRuns ==
  [][\A t \in Tasks :
       (task[t].pc = "idle" /\ task'[t].pc # "idle" /\ IsInTransaction(task'[t]))
         => Running(task'[t].parent)]_vars

\* C28, the part that holds: an operation issued outside the call chain of
\* every scope, while a scope is open or after it, observes no marker: it goes
\* to the lock and sends no command before it has been given its own savepoint.
C28_UnrelatedChainTakesLock ==
  [][\A t \in Tasks :
       /\ (task[t].pc = "idle" /\ task'[t].pc # "idle" /\ ~IsInTransaction(task'[t]))
            => task'[t].pc \in {"waiting", "locked"}
       /\ (~IsInTransaction(task'[t]) /\ task'[t].pc = "stmt")
            => Sent(sql'[task'[t].transactionClient], "SAVEPOINT",
                    task'[t].savepointName, t)]_vars

\* ------------------------------------------- the deferred handle (76-126)
\* proxy.user.create(args) evaluated at once, at invocation.
InvokeDelegateEager(p, st) ==
  /\ p = 0
  /\ IssueTop("query", <<st>>)

\* proxy.user.create(args), not awaited yet: line 77 builds the handle and
\* returns it (lines 78-125).  p is the call chain that makes the call: 0
\* outside every scope, or the invocation whose callback makes it.
InvokeDelegate(p, st) ==
  /\ issued < NTasks
  /\ currentPrismaTransactionClient # 0
  /\ p # 0 => task[p].pc = "body"
  /\ issued' = issued + 1
  /\ task' = [task EXCEPT ![issued + 1] =
                [IdleTask EXCEPT !.pc = "invoked", !.parent = p, !.stmts = <<st>>,
                                 !.delegateClient = currentPrismaTransactionClient]]
  /\ UNCHANGED <<savepointId, lockVars, dbVars, lifecycleVars>>

\* The handle is awaited outside every scope: `then` reads no savepoint name
\* (line 83) and calls wrapInSavepoint (line 86), which takes the client stored
\* now (line 159); the query it wraps stays on the delegate of the handle.
AwaitTop(t) ==
  /\ task[t].pc = "invoked"
  /\ AcquireTransactionLock(task, t,
        [task[t] EXCEPT !.parent = 0,
                        !.transactionClient = currentPrismaTransactionClient],
        microtasks)
  /\ UNCHANGED <<savepointId, dbVars, lifecycleVars, issued>>

\* The handle is awaited by the callback of p: `then` reads the savepoint name
\* of p (line 83) and calls the delegate's function as it is (line 90), on
\* the session the handle was built from.
AwaitInScope(t, p) ==
  /\ task[t].pc = "invoked"
  /\ task[p].pc = "body"
  /\ task[p].steps > 0
  /\ LET c == [op |-> "INSERT", n |-> task[t].stmts[1]]
         s == task[t].delegateClient
     IN /\ Send(s, c, t)
        /\ task' = [task EXCEPT
                      ![p] = [@ EXCEPT !.pc = "awaitChild", !.steps = @ - 1,
                                       !.child = t],
                      ![t] = [@ EXCEPT !.pc = "raw", !.parent = p,
                                       !.transactionClient = s,
                                       !.io = Reply(s, c),
                                       !.wrote = IF Reply(s, c)
                                                 THEN {task[t].stmts[1]} ELSE {}]]
  /\ UNCHANGED <<savepointId, lockVars, lifecycleVars, issued>>

\* One session; delegate functions are called at one moment and their handles
\* awaited at a later one, inside or outside the callbacks of $transaction.
NextLazy ==
  \/ (txStarted = 0 /\ StartNewTransaction)
  \/ \E s \in Sessions : TxBegin(s)
  \/ (issued < MaxOps /\ IssueTop("txfn", <<>>))
  \/ (issued < MaxOps
        /\ \E p \in {0} \cup Tasks : \E st \in StmtsOver(FewRows) : InvokeDelegate(p, st))
  \/ \E t \in Tasks : AwaitTop(t)
  \/ \E t \in Tasks : \E p \in Tasks : AwaitInScope(t, p)
  \/ WakeWaiter
  \/ EnterLocked
  \/ \E t \in Tasks : AfterSavepoint(t)
  \/ \E t \in Tasks : StmtDone(t)
  \/ \E t \in Tasks : AfterRollback(t)
  \/ \E t \in Tasks : RawDone(t)
  \/ \E p \in Tasks : ChildDone(p)
  \/ \E p \in Tasks : ChildThrow(p)
  \/ \E t \in Tasks : BodyReturn(t)

SpecLazy == Init /\ [][NextLazy]_vars

\* The savepoint commands sent for task t, on any client.
CommandsOf(log, t) ==
  UNION {{<<s, i>> : i \in {j \in 1..Len(log[s]) : log[s][j][3] = t}} : s \in Sessions}

\* C29: calling a delegate function through the proxy does nothing but build
\* the handle: the step sends no command, leaves the lock, its waiters and the
\* savepoint counter as they were, and as long as the handle is not awaited no
\* command has been sent for it and it has neither lock nor savepoint name.
\* Awaiting decides: a handle awaited outside every scope goes to the lock
\* and sends nothing yet; a handle awaited inside a scope sends its query at
\* once and never gets a savepoint; where the handle was built plays no part.
C29_NothingUntilAwaited ==
  [][\A t \in Tasks :
       /\ (task[t].pc = "idle" /\ task'[t].pc # "idle" /\ task'[t].kind = "query")
            => /\ task'[t].pc = "invoked"
               /\ sql' = sql /\ db' = db /\ plain' = plain
               /\ savepointId' = savepointId
               /\ transactionLock' = transactionLock
               /\ waiters' = waiters /\ microtasks' = microtasks
       /\ task'[t].pc = "invoked"
            => /\ CommandsOf(sql', t) = {}
               /\ task'[t].wrote = {}
               /\ task'[t].lockResolve = 0
               /\ task'[t].savepointName = -1
               /\ transactionLock' # t
       /\ (task[t].pc = "invoked" /\ task'[t].pc # "invoked")
            => IF IsInTransaction(task'[t])
               THEN /\ task'[t].pc = "raw"
                    /\ sql' = sql
                    /\ savepointId' = savepointId
                    /\ transactionLock' = transactionLock
               ELSE /\ task'[t].pc \in {"waiting", "locked"}
                    /\ sql' = sql
                    /\ savepointId' = savepointId
       /\ (task'[t].kind = "query" /\ IsInTransaction(task'[t]))
            => task'[t].savepointName = -1 /\ task'[t].lockResolve = 0]_vars

\* C29 witness: a handle built outside every scope, before the $transaction
\* call whose callback awaited it, has run inside that scope with no savepoint
\* of its own, while another handle is still waiting to be awaited.
C29_Witness ==
  \E t \in Tasks : \E u \in Tasks :
    /\ task[t].pc = "done" /\ task[t].kind = "query" /\ task[t].result = "ok"
    /\ task[t].parent > t
    /\ task[t].savepointName = -1
    /\ task[u].pc = "invoked"

\* ------------------------------------------- the batch release rule (176-182)
\* The command appended to the log of client s by this step, if there is one.
NewCommand(s) == sql'[s][Len(sql'[s])]

\* startNewTransaction has been called twice with no await between the calls
\* (both calls pass the guard of line 220, the end signal being stored only
\* by the callback); the first session began and one proxy.$transaction([])
\* was awaited on it; the second session began and WarmSavepoints - 1 calls
\* of proxy.$transaction([]) have been awaited one after the other on it.
InitRestarted ==
  /\ currentPrismaTransactionClient = 2
  /\ endCurrentTransactionPromise = 2
  /\ savepointId = WarmSavepoints
  /\ transactionLock = 0
  /\ waiters = [t \in Tasks |-> <<>>]
  /\ microtasks = <<>>
  /\ task = [t \in Tasks |-> IdleTask]
  /\ issued = 0
  /\ tx = [s \in Sessions |-> IF s <= 2 THEN "open" ELSE "unused"]
  /\ db = [s \in Sessions |->
             CASE s = 1 -> [EmptyDb EXCEPT !.sps = <<[n |-> 0, snap |-> {}]>>]
               [] s = 2 -> [EmptyDb EXCEPT !.sps = [i \in 1..(WarmSavepoints - 1) |->
                                                      [n |-> i, snap |-> {}]]]
               [] OTHER -> EmptyDb]
  /\ dbCommitted = {}
  /\ dbBefore = [s \in Sessions |-> {}]
  /\ sql = [s \in Sessions |->
              CASE s = 1 -> <<<<"SAVEPOINT", 0, 0>>>>
                [] s = 2 -> [i \in 1..(WarmSavepoints - 1) |-> <<"SAVEPOINT", i, 0>>]
                [] OTHER -> <<>>]
  /\ txStarted = 2
  /\ lastCall = [op |-> "start", err |-> "none"]
  /\ plain = [s \in Sessions |-> {}]

SpecCapRestarted == InitRestarted /\ [][NextCap]_vars

\* C30: RELEASE SAVEPOINT is sent only when the number n the next savepoint
\* gets is at least the cap and a multiple of it; it names savepoint n - cap,
\* which is then the oldest savepoint that exists on the session.  The
\* SAVEPOINT of such an n is sent only after that release has succeeded, and
\* the SAVEPOINT of every other n is sent with no release before it.
C30_ReleaseRule ==
  [][\A s \in Sessions :
       Len(sql'[s]) = Len(sql[s]) + 1
         => LET e == NewCommand(s)
            IN /\ e[1] = "RELEASE"
                    => /\ savepointId >= MAX_ACTIVE_SAVEPOINTS
                       /\ savepointId % MAX_ACTIVE_SAVEPOINTS = 0
                       /\ e[2] = savepointId - MAX_ACTIVE_SAVEPOINTS
                       /\ savepointId' = savepointId
                       /\ db[s].sps # <<>>
                       /\ db[s].sps[1].n = e[2]
               /\ e[1] = "SAVEPOINT"
                    => /\ e[2] = savepointId
                       /\ (e[2] >= MAX_ACTIVE_SAVEPOINTS /\ e[2] % MAX_ACTIVE_SAVEPOINTS = 0)
                            <=> (task[e[3]].pc = "releasing" /\ task[e[3]].io)]_vars

\* ------------------------------------------ one client per invocation (159)
\* A session with WarmSavepoints savepoints; the session is rolled back and a
\* new one started (startNewTransaction being awaited) while operations that
\* nobody waited for are at any of their awaits.
NextWarmSessions ==
  \/ ((\A s \in Sessions : tx[s] # "starting") /\ StartNewTransaction)
  \/ RollbackCurrentTransaction
  \/ \E s \in Sessions : TxBegin(s)
  \/ \E s \in Sessions : TxEnd(s)
  \/ (issued < MaxOps /\ \E a \in ArgsOf("query", FewRows) : IssueTop("query", a))
  \/ WakeWaiter
  \/ EnterLocked
  \/ \E t \in Tasks : AfterRelease(t)
  \/ \E t \in Tasks : AfterSavepoint(t)
  \/ \E t \in Tasks : StmtDone(t)
  \/ \E t \in Tasks : AfterRollback(t)

SpecWarmSessions == InitWarm /\ [][NextWarmSessions]_vars

\* C31: every savepoint command of an invocation is sent on the client that
\* the helper stored when the invocation was made: the invocation keeps that
\* client to its end, whatever the helper stores later, and the log of no
\* other client holds a command of the invocation.
C31_CommandsOnSnapshot ==
  [][\A t \in Tasks :
       /\ (task[t].pc = "idle" /\ task'[t].pc # "idle")
            => task'[t].transactionClient = currentPrismaTransactionClient
       /\ task[t].pc # "idle" => task'[t].transactionClient = task[t].transactionClient
       /\ \A s \in Sessions : \A i \in 1..Len(sql'[s]) :
            sql'[s][i][3] = t => task'[t].transactionClient = s]_vars

\* C31 witness: an invocation has sent its RELEASE SAVEPOINT, its SAVEPOINT
\* and its ROLLBACK TO SAVEPOINT on the first session's client while the
\* helper stores the client of the second session.
C31_Witness ==
  \E t \in Tasks :
    /\ currentPrismaTransactionClient = 2
    /\ task[t].transactionClient = 1
    /\ \E i \in 1..Len(sql[1]) : sql[1][i][1] = "RELEASE" /\ sql[1][i][3] = t
    /\ \E i \in 1..Len(sql[1]) : sql[1][i][1] = "SAVEPOINT" /\ sql[1][i][3] = t
    /\ \E i \in 1..Len(sql[1]) : sql[1][i][1] = "ROLLBACK" /\ sql[1][i][3] = t
    /\ \A i \in 1..Len(sql[2]) : sql[2][i][3] # t

\* ------------------------------------------------- the proxy's get (32-61)
\* What a property access can meet.  name: the property; frozen: the original
\* client has it as an own property that is neither configurable nor writable
\* (line 38); scope: the value the transaction client has under that name, by
\* its typeof, null apart, and by what it has under findFirst.
PropNames == {"$transaction", "user", "$executeRaw"}
ValueTypes == {"undefined", "null", "object", "function", "string"}
FindFirstKinds == {"none", "function", "string"}
Props ==
  {p \in [name : PropNames, frozen : BOOLEAN, scope : ValueTypes, findFirst : FindFirstKinds] :
     p.scope \notin {"object", "function"} => p.findFirst = "none"}

\* The get trap with the test for $transaction placed above the descriptor's.
ProxyGetTransactionFirst(p) ==
  IF currentPrismaTransactionClient = 0
  THEN [from |-> "original", wrapped |-> FALSE]
  ELSE IF p.name = "$transaction"
  THEN [from |-> "transactionProxyFunction", wrapped |-> FALSE]
  ELSE IF p.frozen
  THEN [from |-> "original", wrapped |-> FALSE]
  ELSE IF p.scope \notin {"undefined", "null"}
  THEN [from |-> "scope",
        wrapped |-> p.scope = "object" /\ p.findFirst = "function"]
  ELSE [from |-> "original", wrapped |-> FALSE]

\* The get trap of the proxy client (lines 32-61).
ProxyGet(p) ==
  IF currentPrismaTransactionClient = 0
  THEN [from |-> "original", wrapped |-> FALSE]
  ELSE IF p.frozen
  THEN [from |-> "original", wrapped |-> FALSE]
  ELSE IF p.name = "$transaction"
  THEN [from |-> "transactionProxyFunction", wrapped |-> FALSE]
  ELSE IF p.scope \notin {"undefined", "null"}
  THEN [from |-> "scope",
        wrapped |-> p.scope = "object" /\ p.findFirst = "function"]
  ELSE [from |-> "original", wrapped |-> FALSE]

\* A get trap that forgets the stored client once the end signal is gone.
AccessClearsClient(p) ==
  /\ lastCall' = [op |-> "get", err |-> "none", prop |-> p, ret |-> ProxyGet(p),
                  open |-> endCurrentTransactionPromise # 0]
  /\ currentPrismaTransactionClient' =
       IF endCurrentTransactionPromise = 0 THEN 0 ELSE currentPrismaTransactionClient
  /\ UNCHANGED <<endCurrentTransactionPromise,
                 savepointId, lockVars, task, issued, tx, dbVars, dbCommitted,
                 dbBefore, txStarted>>

\* proxy[name] is evaluated.
Access(p) ==
  /\ lastCall' = [op |-> "get", err |-> "none", prop |-> p, ret |-> ProxyGet(p),
                  open |-> endCurrentTransactionPromise # 0]
  /\ UNCHANGED <<currentPrismaTransactionClient, endCurrentTransactionPromise,
                 savepointId, lockVars, task, issued, tx, dbVars, dbCommitted,
                 dbBefore, txStarted>>

\* Sessions are started and rolled back; properties of the proxy are read at
\* any moment.
NextGet ==
  \/ StartNewTransaction
  \/ RollbackCurrentTransaction
  \/ \E s \in Sessions : TxBegin(s)
  \/ \E s \in Sessions : TxEnd(s)
  \/ \E p \in Props : Access(p)

SpecGet == Init /\ [][NextGet]_vars

\* C32: while a session is open, a property access on the proxy gives: the
\* original client's value when the property is frozen on the original
\* client, $transaction included; otherwise the transaction-proxy function for
\* $transaction; otherwise the scope client's value when the scope client has
\* one, wrapped exactly when it is an object with a findFirst function;
\* otherwise the original client's value.
C32_DecisionTable ==
  (lastCall.op = "get" /\ lastCall.open)
    => LET p == lastCall.prop
           r == lastCall.ret
       IN /\ p.frozen => r = [from |-> "original", wrapped |-> FALSE]
          /\ (~p.frozen /\ p.name = "$transaction")
               => r = [from |-> "transactionProxyFunction", wrapped |-> FALSE]
          /\ (~p.frozen /\ p.name # "$transaction" /\ p.scope \in {"object", "function", "string"})
               => /\ r.from = "scope"
                  /\ r.wrapped <=> (p.scope = "object" /\ p.findFirst = "function")
          /\ (~p.frozen /\ p.name # "$transaction" /\ p.scope \in {"undefined", "null"})
               => r = [from |-> "original", wrapped |-> FALSE]

\* C32 witness: with a session open, a frozen $transaction has been read and
\* came from the original client.
C32_Witness ==
  /\ lastCall.op = "get" /\ lastCall.open
  /\ lastCall.prop.name = "$transaction" /\ lastCall.prop.frozen
  /\ lastCall.ret.from = "original"

\* ------------------------------------ the promise of startNewTransaction
\* prismaClient.$transaction, once called, calls its callback or rejects.
SpecStartFair ==
  Spec /\ WF_vars(\E s \in Sessions : TxBegin(s) \/ TxFail(s))

\* The promise returned by startNewTransaction for session s has settled.  It
\* is built by `new Promise(resolve => ...)` (line 225): the only call that
\* settles it is resolve() in the callback (line 230).  When $transaction
\* rejects with another error than the sentinel, the handler of line 236
\* throws it into the promise returned by .catch(), which nothing awaits.
StartSettled(s) == tx[s] \in {"open", "ending", "rolledback", "committed"}

\* C33: the promise of every startNewTransaction call that passed the guard
\* settles: it resolves when the session is open, and rejects with the error
\* when prismaClient.$transaction fails to start.
C33_StartSettles ==
  \A s \in Sessions : (tx[s] = "starting") ~> StartSettled(s)

\* C33, the part that holds: a call whose $transaction runs its callback has
\* resolved from then on, and the sentinel thrown at the end changes nothing.
C33_ResolvedOnceOpen ==
  [][\A s \in Sessions :
       /\ (tx[s] = "starting" /\ tx'[s] = "open") => StartSettled(s)'
       /\ StartSettled(s) => StartSettled(s)']_vars

\* --------------------------------------- the savepoint a command names
\* Savepoint n exists on the connection of client s.
Exists(s, n) == DbOpen(s) /\ \E i \in 1..Len(db[s].sps) : db[s].sps[i].n = n

\* C34: when ROLLBACK TO SAVEPOINT is sent, the savepoint it names exists on
\* the connection: the invocation created it and nothing has removed it since.
C34_RollbackTargetExists ==
  [][\A s \in Sessions :
       (Len(sql'[s]) = Len(sql[s]) + 1 /\ NewCommand(s)[1] = "ROLLBACK")
         => /\ Sent(sql[s], "SAVEPOINT", NewCommand(s)[2], NewCommand(s)[3])
            /\ Exists(s, NewCommand(s)[2])]_vars

\* C35: when the batch RELEASE SAVEPOINT is sent, the savepoint it names
\* exists on the connection of the session: a SAVEPOINT of that number was
\* sent on this client and the savepoint has not been destroyed since.
C35_ReleaseTargetExists ==
  [][\A s \in Sessions :
       (Len(sql'[s]) = Len(sql[s]) + 1 /\ NewCommand(s)[1] = "RELEASE")
         => /\ \E i \in 1..Len(sql[s]) :
                 sql[s][i][1] = "SAVEPOINT" /\ sql[s][i][2] = NewCommand(s)[2]
            /\ Exists(s, NewCommand(s)[2])]_vars

\* ------------------------------------------------ rollbacks of other scopes
\* C36: the ROLLBACK TO SAVEPOINT of a failing operation removes nothing that
\* another top-level operation wrote and that was in the session when that
\* operation had completed successfully.
C36_RollbackSparesOtherOperations ==
  [][\A s \in Sessions :
       (Len(sql'[s]) = Len(sql[s]) + 1 /\ NewCommand(s)[1] = "ROLLBACK")
         => \A u \in Tasks :
              (u # NewCommand(s)[3] /\ TopLevel(u) /\ task[u].transactionClient = s
                 /\ task[u].pc = "done" /\ task[u].result = "ok")
                => (task[u].wrote \cap db[s].data) \subseteq db'[s].data]_vars

\* ------------------------------------------- who writes the two fields
FrameOps == 2

\* The properties read in this environment: a delegate and $transaction.
FrameProps ==
  {p \in Props : ~p.frozen /\ ((p.name = "user" /\ p.scope = "object" /\ p.findFirst = "function")
                               \/ (p.name = "$transaction" /\ p.scope = "function"
                                     /\ p.findFirst = "none"))}

\* Sessions are started and rolled back (startNewTransaction being awaited)
\* while properties of the proxy are read and operations of every kind are
\* issued and run.
NextFrame ==
  \/ ((\A s \in Sessions : tx[s] # "starting") /\ StartNewTransaction)
  \/ RollbackCurrentTransaction
  \/ \E s \in Sessions : TxBegin(s)
  \/ \E s \in Sessions : TxEnd(s)
  \/ \E p \in FrameProps : Access(p)
  \/ (issued < FrameOps /\ \E k \in Kinds : \E a \in ArgsOf(k, FewRows) : IssueTop(k, a))
  \/ WakeWaiter
  \/ EnterLocked
  \/ \E t \in Tasks : AfterSavepoint(t)
  \/ \E t \in Tasks : StmtDone(t)
  \/ \E t \in Tasks : AfterRollback(t)
  \/ \E t \in Tasks : \E st \in StmtsOver(FewRows) : BodyStmt(t, st)
  \/ \E t \in Tasks : BodyReturn(t)

SpecFrame == Init /\ [][NextFrame]_vars

\* C37: the stored client and the end signal change only in the callback of
\* startNewTransaction (both are stored) and in rollbackCurrentTransaction
\* (the end signal is cleared); a step of the get trap, of a delegate's
\* handle, of transactionProxyFunction, of wrapInSavepoint or of
\* acquireTransactionLock leaves both as they were.
C37_OnlyLifecycleWrites ==
  [][/\ (currentPrismaTransactionClient' # currentPrismaTransactionClient
           \/ endCurrentTransactionPromise' # endCurrentTransactionPromise)
          => \/ \E s \in Sessions :
                  /\ tx[s] = "starting" /\ tx'[s] = "open"
                  /\ currentPrismaTransactionClient' = s
                  /\ endCurrentTransactionPromise' = s
             \/ /\ lastCall' = [op |-> "rollback", err |-> "none"]
                /\ endCurrentTransactionPromise # 0
                /\ endCurrentTransactionPromise' = 0
                /\ currentPrismaTransactionClient' = currentPrismaTransactionClient
     /\ (task' # task \/ sql' # sql \/ transactionLock' # transactionLock
           \/ waiters' # waiters \/ microtasks' # microtasks
           \/ savepointId' > savepointId
           \/ (lastCall' # lastCall /\ lastCall'.op = "get"))
          => /\ currentPrismaTransactionClient' = currentPrismaTransactionClient
             /\ endCurrentTransactionPromise' = endCurrentTransactionPromise]_vars

\* C37 witness: in the second session, after the get trap was used, a
\* $transaction call with a callback has completed and a delegate query waits
\* for the lock or runs; the helper still stores that session's client and
\* its end signal.
C37_Witness ==
  /\ currentPrismaTransactionClient = 2 /\ endCurrentTransactionPromise = 2
  /\ lastCall.op = "get"
  /\ \E t \in Tasks : \E u \in Tasks :
       /\ task[t].kind = "txfn" /\ task[t].pc = "done" /\ task[t].transactionClient = 2
       /\ task[u].kind = "query" /\ task[u].pc \notin {"idle", "done"}

====
